---- MODULE Spec2Model ----
(***************************************************************************)
(* Model of .github/scripts/embed.py: the PDF page embedder.  A run of     *)
(* main() validates its argument, loads the embedding model, opens the     *)
(* SQLite store (init_db) and runs process_pdf, which walks the pages of   *)
(* the document, skips the blank ones, embeds and inserts the others and   *)
(* commits every commit_interval-th page number and once at the end.       *)
(*                                                                         *)
(* Strings are sequences of one-character strings.  The SQLite file is the *)
(* record db = [exists, table, rows]: rows are the committed (durable)     *)
(* rows; tx holds the rows of the connection's open transaction.           *)
(***************************************************************************)
EXTENDS Integers, Sequences, FiniteSets, TLC

\* ---------------------------------------------------------------- bounds
MaxPages == 4
MaxInterval == 3
MaxRuns == 2

\* ----------------------------------------------------- program constants
DefaultCommitInterval == 50

\* ------------------------------------------------------------ the inputs
Whitespace == {" ", "\n"}

\* what page.get_text("text") can return for a page
RawTexts == { <<" ">>, <<"a">>, <<" ", "b", "\n">> }

ScriptName == <<"embed.py">>
ExistingPath == << "docs", "a.pdf" >>
MissingPath == << "docs", "gone.pdf" >>

\* the files present on the file system (the store file is db.exists)
ExistingFiles == { ExistingPath }

\* the command lines a run can be started with
ArgVectors == { <<ScriptName>>, <<ScriptName, MissingPath>>, <<ScriptName, ExistingPath>> }

CommitIntervals == (1..MaxInterval) \cup {DefaultCommitInterval}

Documents == UNION { [1..n -> RawTexts] : n \in 0..MaxPages }

\* ------------------------------------------------------- pure functions
RECURSIVE LStrip(_)
LStrip(s) == IF s = <<>> THEN s
             ELSE IF Head(s) \in Whitespace THEN LStrip(Tail(s)) ELSE s

RECURSIVE RStrip(_)
RStrip(s) == IF s = <<>> THEN s
             ELSE IF s[Len(s)] \in Whitespace THEN RStrip(SubSeq(s, 1, Len(s) - 1)) ELSE s

\* str.strip()
Strip(s) == RStrip(LStrip(s))

\* `not text` of line 55
NotTextNever(t) == FALSE
NotText(t) == Len(t) = 0

\* enumerate(doc, start=1): the number given to the item at 0-based position i
EnumerateFromZero(i) == i
Enumerate(i) == i + 1

\* Path(p).exists()
PathExistsAlways(p) == TRUE
PathExists(p) == p \in ExistingFiles

\* Path(p).name
PathName(p) == p[Len(p)]

\* number of occurrences of character c in s
RECURSIVE CountChar(_, _)
CountChar(s, c) == IF s = <<>> THEN 0
                   ELSE (IF Head(s) = c THEN 1 ELSE 0) + CountChar(Tail(s), c)

\* model.encode(text): a fixed-length vector that depends on the text only.
\* The components are whole-valued floats.
Encode(t) == << Len(t), CountChar(t, "b") - CountChar(t, "a") >>

\* embedding_vector.tolist()
ToList(v) == [i \in 1..Len(v) |-> v[i]]

DigitChar(d) == << "0", "1", "2", "3", "4", "5", "6", "7", "8", "9" >>[d + 1]

RECURSIVE NatChars(_)
NatChars(n) == IF n < 10 THEN << DigitChar(n) >>
               ELSE NatChars(n \div 10) \o << DigitChar(n % 10) >>

\* float.__repr__ of a whole-valued float
FloatRepr(x) == (IF x < 0 THEN << "-" >> \o NatChars(0 - x) ELSE NatChars(x)) \o << ".", "0" >>

RECURSIVE JoinItems(_)
JoinItems(l) == IF l = <<>> THEN <<>>
                ELSE IF Len(l) = 1 THEN FloatRepr(l[1])
                ELSE FloatRepr(l[1]) \o << ",", " " >> \o JoinItems(Tail(l))

RECURSIVE JoinSpaced(_)
JoinSpaced(l) == IF l = <<>> THEN <<>>
                 ELSE IF Len(l) = 1 THEN FloatRepr(l[1])
                 ELSE FloatRepr(l[1]) \o << " " >> \o JoinSpaced(Tail(l))

JsonDumpsSpaced(l) == << "[" >> \o JoinSpaced(l) \o << "]" >>

\* json.dumps of a list of floats
JsonDumps(l) == << "[" >> \o JoinItems(l) \o << "]" >>

RECURSIVE MaxId(_)
MaxId(rows) == IF rows = <<>> THEN 0
               ELSE LET m == MaxId(Tail(rows))
                    IN IF Head(rows).id > m THEN Head(rows).id ELSE m

\* INTEGER PRIMARY KEY: the rowid given to an inserted row
NextId(rows) == MaxId(rows) + 1

\* the row built by the INSERT of lines 67-70
MakeRecord(id, file_name, page_no, t, embedding) ==
    [id |-> id, filename |-> file_name, page |-> page_no, text |-> t, embedding |-> embedding]

\* INSERT INTO Documents: the row joins the open transaction
InsertRowReplace(rows, r) == IF rows = <<>> THEN << r >> ELSE SubSeq(rows, 1, Len(rows) - 1) \o << r >>
InsertRow(rows, r) == Append(rows, r)

\* `page_number % commit_interval == 0` of line 72
ShouldCommitAlways(page_no, k) == TRUE
ShouldCommitOffByOne(page_no, k) == (page_no + 1) % k = 0
ShouldCommit(page_no, k) == page_no % k = 0

\* conn.commit(): the rows of the open transaction become durable
CommitRowsDropped(rows, pending) == rows
CommitRowsLastOnly(rows, pending) ==
    IF pending = << >> THEN rows ELSE Append(rows, pending[Len(pending)])
CommitRows(rows, pending) == rows \o pending

\* process death with an open transaction: SQLite rolls it back
RollbackKeeps(rows, pending) == rows \o pending
Rollback(rows, pending) == rows

\* CREATE TABLE IF NOT EXISTS Documents, then commit
CreateTableDropFirst(store) == [exists |-> TRUE, table |-> TRUE, rows |-> <<>>]
CreateTableIfNotExists(store) ==
    [exists |-> TRUE, table |-> TRUE, rows |-> IF store.table THEN store.rows ELSE <<>>]

\* ----------------------------------------------------------------- state
VARIABLES
    doc,              \* the pages (raw text) of the PDF at ExistingPath
    commit_interval,  \* process_pdf's commit_interval parameter
    db,               \* the store file: [exists, table, rows]
    pc,               \* position of the process
    argv,             \* sys.argv of the current run
    exitCode,         \* exit status of the run, -1 while running
    modelLoaded,      \* SentenceTransformer constructed
    conn,             \* "none", "open", "closed", "abandoned"
    tx,               \* rows inserted in the open transaction
    pageIdx,          \* pages taken from the document iterator so far
    page_number,      \* loop variable of process_pdf
    text,             \* trimmed text of the current page
    embedding_json,   \* serialized embedding of the current page
    output,           \* console lines printed by the current run
    runs,             \* number of runs started
    pre,              \* the store file as it was when the run started
    inserted,         \* rows inserted by the current pass, in order
    lastCommitted,    \* Len(inserted) at the most recent commit of the pass
    commitsInLoop,    \* commits executed at line 73 in the current pass
    finalCommits,     \* commits executed at line 76 in the current pass
    encodeCalls,      \* page numbers handed to model.encode, in order
    failedAt          \* pc at which the run aborted, "" if it did not

vars == << doc, commit_interval, db, pc, argv, exitCode, modelLoaded, conn, tx,
           pageIdx, page_number, text, embedding_json, output, runs, pre, inserted,
           lastCommitted, commitsInLoop, finalCommits, encodeCalls, failedAt >>

inputVars == << doc, commit_interval >>
loopVars == << pageIdx, page_number, text, embedding_json >>
histVars == << runs, pre, inserted, lastCommitted, commitsInLoop, finalCommits, encodeCalls, failedAt >>

Init ==
    /\ doc \in Documents
    /\ commit_interval \in CommitIntervals
    /\ db = [exists |-> FALSE, table |-> FALSE, rows |-> <<>>]
    /\ pc = "idle"
    /\ argv = << >>
    /\ exitCode = -1
    /\ modelLoaded = FALSE
    /\ conn = "none"
    /\ tx = << >>
    /\ pageIdx = 0
    /\ page_number = 0
    /\ text = << >>
    /\ embedding_json = << >>
    /\ output = << >>
    /\ runs = 0
    /\ pre = db
    /\ inserted = << >>
    /\ lastCommitted = 0
    /\ commitsInLoop = 0
    /\ finalCommits = 0
    /\ encodeCalls = << >>
    /\ failedAt = ""

\* ------------------------------------------------------------------ main
\* the interpreter starts main() with a command line
MainStart ==
    /\ pc \in {"idle", "exited", "aborted"}
    /\ runs < MaxRuns
    /\ argv' \in ArgVectors
    /\ pc' = "args"
    /\ runs' = runs + 1
    /\ exitCode' = -1
    /\ modelLoaded' = FALSE
    /\ conn' = "none"
    /\ tx' = << >>
    /\ pageIdx' = 0
    /\ page_number' = 0
    /\ text' = << >>
    /\ embedding_json' = << >>
    /\ output' = << >>
    /\ pre' = db
    /\ inserted' = << >>
    /\ lastCommitted' = 0
    /\ commitsInLoop' = 0
    /\ finalCommits' = 0
    /\ encodeCalls' = << >>
    /\ failedAt' = ""
    /\ UNCHANGED << doc, commit_interval, db >>

\* lines 80-82
MainUsage ==
    /\ pc = "args"
    /\ Len(argv) < 2
    /\ output' = Append(output, << "Usage" >>)
    /\ exitCode' = 1
    /\ pc' = "exited"
    /\ UNCHANGED << inputVars, db, argv, modelLoaded, conn, tx, loopVars, histVars >>

\* lines 84-87
MainNoFile ==
    /\ pc = "args"
    /\ Len(argv) >= 2
    /\ ~PathExists(argv[2])
    /\ output' = Append(output, << "does not exist" >>)
    /\ exitCode' = 1
    /\ pc' = "exited"
    /\ UNCHANGED << inputVars, db, argv, modelLoaded, conn, tx, loopVars, histVars >>

MainLoadModelLazy ==
    /\ pc = "args"
    /\ Len(argv) >= 2
    /\ PathExists(argv[2])
    /\ modelLoaded' = FALSE
    /\ output' = output \o << << "Loading embedding model" >>, << "Embedding model loaded" >> >>
    /\ pc' = "init_db"
    /\ UNCHANGED << inputVars, db, argv, exitCode, conn, tx, loopVars, histVars >>

\* lines 89-92
MainLoadModel ==
    /\ pc = "args"
    /\ Len(argv) >= 2
    /\ PathExists(argv[2])
    /\ modelLoaded' = TRUE
    /\ output' = output \o << << "Loading embedding model" >>, << "Embedding model loaded" >> >>
    /\ pc' = "init_db"
    /\ UNCHANGED << inputVars, db, argv, exitCode, conn, tx, loopVars, histVars >>

\* lines 94-96 and init_db, lines 20-36
MainInitDb ==
    /\ pc = "init_db"
    /\ db' = CreateTableIfNotExists(db)
    /\ conn' = "open"
    /\ tx' = << >>
    /\ pc' = "open_doc"
    /\ UNCHANGED << inputVars, argv, exitCode, modelLoaded, loopVars, output, histVars >>

\* ----------------------------------------------------------- process_pdf
\* lines 47-51: fitz.open raises when the file cannot be opened
ProcessOpen ==
    /\ pc = "open_doc"
    /\ argv[2] \in ExistingFiles
    /\ pageIdx' = 0
    /\ output' = Append(output, << "Processing PDF", PathName(argv[2]), Len(doc) >>)
    /\ pc' = "loop"
    /\ UNCHANGED << inputVars, db, argv, exitCode, modelLoaded, conn, tx, page_number,
                    text, embedding_json, histVars >>

LoopSkipExits ==
    /\ pc = "loop"
    /\ pageIdx < Len(doc)
    /\ NotText(Strip(doc[pageIdx + 1]))
    /\ pageIdx' = pageIdx + 1
    /\ page_number' = Enumerate(pageIdx)
    /\ text' = Strip(doc[pageIdx + 1])
    /\ output' = Append(output, << "Skipping", page_number' >>)
    /\ exitCode' = 1
    /\ pc' = "exited"
    /\ UNCHANGED << inputVars, db, argv, modelLoaded, conn, tx, embedding_json,
                    histVars >>

\* lines 53-57: the next page has no text after strip()
LoopSkip ==
    /\ pc = "loop"
    /\ pageIdx < Len(doc)
    /\ NotText(Strip(doc[pageIdx + 1]))
    /\ pageIdx' = pageIdx + 1
    /\ page_number' = Enumerate(pageIdx)
    /\ text' = Strip(doc[pageIdx + 1])
    /\ output' = Append(output, << "Skipping", page_number' >>)
    /\ pc' = "loop"
    /\ UNCHANGED << inputVars, db, argv, exitCode, modelLoaded, conn, tx, embedding_json,
                    histVars >>

\* lines 53-55, 59: the next page has text
LoopPage ==
    /\ pc = "loop"
    /\ pageIdx < Len(doc)
    /\ ~NotText(Strip(doc[pageIdx + 1]))
    /\ pageIdx' = pageIdx + 1
    /\ page_number' = Enumerate(pageIdx)
    /\ text' = Strip(doc[pageIdx + 1])
    /\ output' = Append(output, << "Processing page", page_number', Len(doc) >>)
    /\ pc' = "encode"
    /\ UNCHANGED << inputVars, db, argv, exitCode, modelLoaded, conn, tx, embedding_json,
                    histVars >>

\* line 53: the iterator is exhausted
LoopEnd ==
    /\ pc = "loop"
    /\ pageIdx = Len(doc)
    /\ pc' = "final_commit"
    /\ UNCHANGED << inputVars, db, argv, exitCode, modelLoaded, conn, tx, loopVars, output,
                    histVars >>

\* lines 61-64
EncodePage ==
    /\ pc = "encode"
    /\ embedding_json' = JsonDumps(ToList(Encode(text)))
    /\ encodeCalls' = Append(encodeCalls, [page |-> pageIdx, text |-> text,
                                            vector |-> Encode(text)])
    /\ pc' = "insert"
    /\ UNCHANGED << inputVars, db, argv, exitCode, modelLoaded, conn, tx, pageIdx,
                    page_number, text, output, runs, pre, inserted, lastCommitted,
                    commitsInLoop, finalCommits, failedAt >>

InsertPageUnique ==
    /\ pc = "insert"
    /\ LET r == MakeRecord(NextId(db.rows \o tx), PathName(argv[2]), page_number, text,
                           embedding_json)
           seen == \E i \in 1..Len(db.rows \o tx) :
                      /\ (db.rows \o tx)[i].filename = r.filename
                      /\ (db.rows \o tx)[i].page = r.page
       IN /\ tx' = IF seen THEN tx ELSE InsertRow(tx, r)
          /\ inserted' = IF seen THEN inserted ELSE Append(inserted, r)
    /\ pc' = IF ShouldCommit(page_number, commit_interval) THEN "commit" ELSE "loop"
    /\ UNCHANGED << inputVars, db, argv, exitCode, modelLoaded, conn, loopVars, output,
                    runs, pre, lastCommitted, commitsInLoop, finalCommits, encodeCalls,
                    failedAt >>

\* lines 67-72
InsertPage ==
    /\ pc = "insert"
    /\ LET r == MakeRecord(NextId(db.rows \o tx), PathName(argv[2]), page_number, text,
                           embedding_json)
       IN /\ tx' = InsertRow(tx, r)
          /\ inserted' = Append(inserted, r)
    /\ pc' = IF ShouldCommit(page_number, commit_interval) THEN "commit" ELSE "loop"
    /\ UNCHANGED << inputVars, db, argv, exitCode, modelLoaded, conn, loopVars, output,
                    runs, pre, lastCommitted, commitsInLoop, finalCommits, encodeCalls,
                    failedAt >>

\* line 73
PeriodicCommit ==
    /\ pc = "commit"
    /\ db' = [db EXCEPT !.rows = CommitRows(db.rows, tx)]
    /\ tx' = << >>
    /\ commitsInLoop' = commitsInLoop + 1
    /\ lastCommitted' = Len(inserted)
    /\ pc' = "announce"
    /\ UNCHANGED << inputVars, argv, exitCode, modelLoaded, conn, loopVars, output,
                    runs, pre, inserted, finalCommits, encodeCalls, failedAt >>

\* line 74
Announce ==
    /\ pc = "announce"
    /\ output' = Append(output, << "Committed records up to page", page_number >>)
    /\ pc' = "loop"
    /\ UNCHANGED << inputVars, db, argv, exitCode, modelLoaded, conn, tx, loopVars,
                    histVars >>

\* lines 76-77
FinalCommitSkipped ==
    /\ pc = "final_commit"
    /\ output' = Append(output, << "Finished processing PDF", PathName(argv[2]) >>)
    /\ pc' = "close"
    /\ UNCHANGED << inputVars, db, argv, exitCode, modelLoaded, conn, tx, loopVars,
                    histVars >>

FinalCommit ==
    /\ pc = "final_commit"
    /\ db' = [db EXCEPT !.rows = CommitRows(db.rows, tx)]
    /\ tx' = << >>
    /\ finalCommits' = finalCommits + 1
    /\ lastCommitted' = Len(inserted)
    /\ output' = Append(output, << "Finished processing PDF", PathName(argv[2]) >>)
    /\ pc' = "close"
    /\ UNCHANGED << inputVars, argv, exitCode, modelLoaded, conn, loopVars,
                    runs, pre, inserted, commitsInLoop, encodeCalls, failedAt >>

\* lines 101-102, and the normal end of the script
MainClose ==
    /\ pc = "close"
    /\ conn' = "closed"
    /\ output' = Append(output, << "Embeddings saved" >>)
    /\ exitCode' = 0
    /\ pc' = "exited"
    /\ UNCHANGED << inputVars, db, argv, modelLoaded, tx, loopVars, histVars >>

\* the statement about to run can raise
CanFail ==
    \/ pc = "args" /\ Len(argv) >= 2 /\ PathExists(argv[2])
    \/ pc \in {"init_db", "open_doc", "encode", "insert", "commit", "final_commit"}
    \/ pc = "loop" /\ pageIdx < Len(doc)

\* An exception (model load, store I/O, fitz.open, get_text, encode) is caught
\* nowhere: the interpreter prints the traceback and exits with status 1; the
\* connection is never closed and its open transaction is rolled back.
Fatal ==
    /\ CanFail
    /\ db' = [db EXCEPT !.rows = Rollback(db.rows, tx)]
    /\ tx' = << >>
    /\ conn' = IF conn = "open" THEN "abandoned" ELSE conn
    /\ output' = Append(output, << "Traceback" >>)
    /\ exitCode' = 1
    /\ failedAt' = pc
    /\ pc' = "aborted"
    /\ UNCHANGED << inputVars, argv, modelLoaded, loopVars, runs, pre, inserted,
                    lastCommitted, commitsInLoop, finalCommits, encodeCalls >>

Next ==
    \/ MainStart
    \/ MainUsage
    \/ MainNoFile
    \/ MainLoadModel
    \/ MainInitDb
    \/ ProcessOpen
    \/ LoopSkip
    \/ LoopPage
    \/ LoopEnd
    \/ EncodePage
    \/ InsertPage
    \/ PeriodicCommit
    \/ Announce
    \/ FinalCommit
    \/ MainClose
    \/ Fatal

Spec == Init /\ [][Next]_vars

TypeOK ==
    /\ doc \in Documents
    /\ commit_interval \in CommitIntervals
    /\ db.exists \in BOOLEAN /\ db.table \in BOOLEAN
    /\ pc \in {"idle", "args", "init_db", "open_doc", "loop", "encode", "insert", "commit",
               "announce", "final_commit", "close", "exited", "aborted"}
    /\ pageIdx \in 0..Len(doc)
    /\ runs \in 0..MaxRuns
    /\ exitCode \in {-1, 0, 1}

\* ------------------------------------------------------------ properties
IsPrefix(s, t) == Len(s) <= Len(t) /\ SubSeq(t, 1, Len(s)) = s

\* the 1-based indices of the pages of d whose trimmed text is not empty
NonEmptyPages(d) == SelectSeq([i \in 1..Len(d) |-> i], LAMBDA i : Strip(d[i]) # << >>)

\* the durable rows that were not there when the run started
NewRows == SubSeq(db.rows, Len(pre.rows) + 1, Len(db.rows))

\* process_pdf has returned normally
PassReturned == pc = "close" \/ (pc = "exited" /\ exitCode = 0)

\* records inserted since the last commit of the pass
Uncommitted == Len(inserted) - lastCommitted

\* the run was started without a path or with a path that does not exist
UsageError == pc # "idle" /\ (Len(argv) < 2 \/ argv[2] \notin ExistingFiles)

\* C1: when process_pdf has returned, the page loop has committed at least
\* floor(m / commit_interval) times, m being the number of non-blank pages,
\* and the final commit has happened exactly once.
C1_CommitCadence ==
    PassReturned =>
        /\ commitsInLoop >= Len(NonEmptyPages(doc)) \div commit_interval
        /\ finalCommits = 1

\* C2: in every state the number of records inserted since the last commit
\* is at most commit_interval.
C2_BoundedUncommitted ==
    /\ Uncommitted <= commit_interval
    /\ Len(tx) <= commit_interval

\* C3: when process_pdf has returned, the rows added to the store are one per
\* non-blank page, in page order, each with the page's 1-based index in the
\* document, its trimmed text and the file's base name.
C3_RecordsMatchPages ==
    PassReturned =>
        LET pages == NonEmptyPages(doc)
        IN /\ IsPrefix(pre.rows, db.rows)
           /\ Len(NewRows) = Len(pages)
           /\ \A i \in 1..Len(NewRows) :
                /\ NewRows[i].page = pages[i]
                /\ NewRows[i].text = Strip(doc[pages[i]])
                /\ NewRows[i].filename = "a.pdf"
           /\ (\A i \in 1..Len(doc) : Strip(doc[i]) # << >>) =>
                [i \in 1..Len(NewRows) |-> NewRows[i].page] = [i \in 1..Len(doc) |-> i]

\* C3 witness: a pass has returned on a document with a blank page before a
\* non-blank one, so a stored page number differs from the record count
C3_Witness ==
    /\ PassReturned
    /\ Len(NewRows) >= 2
    /\ \E i \in 1..Len(NewRows) : NewRows[i].page # i

\* C4: when process_pdf has returned, no inserted record is uncommitted and
\* every record of the pass is durable.
C4_FinalCommit ==
    PassReturned =>
        /\ tx = << >>
        /\ Uncommitted = 0
        /\ db.rows = pre.rows \o inserted

\* C4 witness: the pass returned after a blank last page, with a number of
\* inserted records that is not a multiple of commit_interval
C4_Witness ==
    /\ PassReturned
    /\ Len(doc) >= 2
    /\ Strip(doc[Len(doc)]) = << >>
    /\ inserted # << >>
    /\ Len(inserted) % commit_interval # 0
    /\ Len(doc) % commit_interval # 0

\* C5: after a fatal error the durable rows are the rows that were there before
\* the run followed by the records inserted up to the most recent commit.
C5_CrashDurability ==
    pc = "aborted" =>
        /\ db.rows = pre.rows \o SubSeq(inserted, 1, lastCommitted)
        /\ db.exists = (pre.exists \/ failedAt \notin {"args", "init_db"})

\* C5 witness: a run over a store with earlier rows aborted while handling a
\* page, after a commit and with records inserted since that commit
C5_Witness ==
    /\ pc = "aborted"
    /\ failedAt \in {"loop", "encode", "insert"}
    /\ pre.rows # << >>
    /\ lastCommitted > 0
    /\ Len(inserted) > lastCommitted

\* the pages whose handling has got past the embedding step
PagesEmbedded ==
    IF pc = "encode" \/ (pc = "aborted" /\ failedAt = "encode") THEN pageIdx - 1 ELSE pageIdx

\* C6: model.encode has been called once for each non-blank page handled so
\* far, with that page's text alone and in page order, and never for a blank
\* page; no record is inserted for a blank page.
C6_BlankPagesCostNothing ==
    /\ [i \in 1..Len(encodeCalls) |-> encodeCalls[i].page]
          = NonEmptyPages(SubSeq(doc, 1, PagesEmbedded))
    /\ \A i \in 1..Len(encodeCalls) :
          /\ Strip(doc[encodeCalls[i].page]) # << >>
          /\ encodeCalls[i].text = Strip(doc[encodeCalls[i].page])
    /\ \A i \in 1..Len(inserted) : Strip(doc[inserted[i].page]) # << >>
    /\ Len(inserted) <= Len(encodeCalls)

\* C6 witness: a pass has returned on a document with a blank page between two
\* embedded pages
C6_Witness ==
    /\ PassReturned
    /\ Len(encodeCalls) >= 2
    /\ \E i \in 1..Len(doc) :
          /\ Strip(doc[i]) = << >>
          /\ encodeCalls[1].page < i
          /\ i < encodeCalls[Len(encodeCalls)].page

\* C7: a run started without a path, or with a path that does not exist, ends
\* with exit code 1 without opening a connection, and the store file is as it
\* was before the run.
C7_UsageErrors ==
    UsageError =>
        /\ pc \in {"args", "exited"}
        /\ db = pre
        /\ conn = "none"
        /\ pc = "exited" => exitCode = 1

\* C7 witness: a run with a nonexistent path has exited and there is no store
C7_Witness ==
    /\ pc = "exited"
    /\ Len(argv) = 2
    /\ argv[2] = MissingPath
    /\ exitCode = 1
    /\ ~db.exists

\* the step of main that is the call of init_db
InitDbStep == pc = "init_db" /\ pc' = "open_doc"

\* C8: a call of init_db leaves the rows of the store as they are, the
\* table exists afterwards, and a further call changes nothing.
C8_InitDbIdempotent ==
    [][InitDbStep =>
          /\ db'.rows = db.rows
          /\ db'.exists /\ db'.table
          /\ CreateTableIfNotExists(db') = db']_vars

\* C8 witness: init_db has been called a second time, on a store with rows
C8_Witness ==
    /\ pc = "open_doc"
    /\ runs = 2
    /\ pre.table
    /\ pre.rows # << >>
    /\ db.rows = pre.rows

\* C9: no step updates or deletes a durable row: the durable rows before a
\* step are a prefix of those after it, the rows that were there when the run
\* started stay a prefix, and short of a rollback the rows of the table as
\* the connection sees it only grow at the end.
C9_AppendOnly ==
    [][/\ IsPrefix(db.rows, db'.rows)
       /\ IsPrefix(pre'.rows, db'.rows)
       /\ pc' # "aborted" => IsPrefix(db.rows \o tx, db'.rows \o tx')]_vars

\* C9 witness: a second pass has returned and has added rows after the rows of
\* the first
C9_Witness ==
    /\ runs = 2
    /\ PassReturned
    /\ pre.rows # << >>
    /\ Len(db.rows) > Len(pre.rows) + 1

\* C10: on a document with fewer pages than commit_interval the page loop
\* never commits, and when process_pdf has returned there has been exactly
\* one commit, the final one.
C10_SmallDocumentsCommitOnce ==
    Len(doc) < commit_interval =>
        /\ commitsInLoop = 0
        /\ PassReturned => finalCommits = 1 /\ commitsInLoop + finalCommits = 1

\* C10 witness: the 3-page document with a blank page 2 and the default
\* interval, after the pass: two new rows
C10_Witness ==
    /\ PassReturned
    /\ commit_interval = DefaultCommitInterval
    /\ Len(doc) = 3
    /\ Strip(doc[2]) = << >>
    /\ Len(NewRows) = 2
    /\ NewRows[1].page = 1 /\ NewRows[2].page = 3

\* the current run was started on the existing document and no exception
\* was raised in it
CleanRun == pc # "idle" /\ ~UsageError /\ failedAt = ""

\* C11: a run on the existing document in which nothing raises never ends in
\* an error state whatever pages are blank: when it has ended the exit code is
\* 0, the final commit has happened once and the connection is closed; when
\* every page is blank the store has gained no row and nothing was embedded.
C11_BlankDocumentsSucceed ==
    CleanRun =>
        /\ pc # "aborted"
        /\ exitCode \in {-1, 0}
        /\ pc = "exited" =>
              /\ exitCode = 0
              /\ finalCommits = 1
              /\ conn = "closed"
              /\ pageIdx = Len(doc)
              /\ Len(NewRows) = Len(NonEmptyPages(doc))
              /\ NonEmptyPages(doc) = << >> =>
                    /\ db.rows = pre.rows
                    /\ inserted = << >>
                    /\ encodeCalls = << >>

\* C11 witness: a run on a document of several pages, all blank, has ended
C11_Witness ==
    /\ CleanRun
    /\ pc = "exited"
    /\ exitCode = 0
    /\ Len(doc) >= 2
    /\ NonEmptyPages(doc) = << >>
    /\ finalCommits = 1
    /\ conn = "closed"

\* the number of rows of the table with the given filename and page
CountPairs(rows, f, p) ==
    Cardinality({i \in 1..Len(rows) : rows[i].filename = f /\ rows[i].page = p})

\* a pass over the document has completed on a store that held exactly the
\* records of one complete pass over it
TwoCompletePasses ==
    /\ pc = "exited"
    /\ exitCode = 0
    /\ [i \in 1..Len(pre.rows) |-> pre.rows[i].page] = NonEmptyPages(doc)

\* C12: after two complete passes over the document, with n its number of
\* non-blank pages, the store holds 2n rows for its filename, under 2n
\* different ids, and every (filename, page) pair of the first pass is there
\* twice.
C12_NoDeduplication ==
    TwoCompletePasses =>
        LET pages == NonEmptyPages(doc)
        IN /\ Len(db.rows) = 2 * Len(pages)
           /\ Len(pre.rows) = Len(pages)
           /\ \A i \in 1..Len(db.rows) : db.rows[i].filename = "a.pdf"
           /\ \A i \in 1..Len(pre.rows) :
                 CountPairs(db.rows, pre.rows[i].filename, pre.rows[i].page) = 2
           /\ \A i \in 1..Len(pages) : CountPairs(db.rows, "a.pdf", pages[i]) = 2
           /\ \A i, j \in 1..Len(db.rows) : db.rows[i].id = db.rows[j].id => i = j

\* C12 witness: two complete passes over a document with a blank page and two
\* non-blank ones have left four rows
C12_Witness ==
    /\ TwoCompletePasses
    /\ Len(NonEmptyPages(doc)) = 2
    /\ Len(doc) > 2
    /\ Len(db.rows) = 4

\* ---- reading a stored embedding back (JSON text to a list of numbers)
Digits == {"0", "1", "2", "3", "4", "5", "6", "7", "8", "9"}

DigitValue(c) ==
    CASE c = "0" -> 0 [] c = "1" -> 1 [] c = "2" -> 2 [] c = "3" -> 3 [] c = "4" -> 4
      [] c = "5" -> 5 [] c = "6" -> 6 [] c = "7" -> 7 [] c = "8" -> 8 [] c = "9" -> 9

AllDigits(s) == s # << >> /\ \A i \in 1..Len(s) : s[i] \in Digits

RECURSIVE NatValue(_)
NatValue(s) == IF s = << >> THEN 0
               ELSE 10 * NatValue(SubSeq(s, 1, Len(s) - 1)) + DigitValue(s[Len(s)])

\* the pieces of s between the occurrences of the character c
RECURSIVE SplitOn(_, _)
SplitOn(s, c) ==
    IF s = << >> THEN << << >> >>
    ELSE LET rest == SplitOn(Tail(s), c)
         IN IF Head(s) = c THEN << << >> >> \o rest
            ELSE << << Head(s) >> \o rest[1] >> \o Tail(rest)

\* a JSON number with a whole value: -?digits(.0*)?
ParseNumber(tok) ==
    LET t == Strip(tok)
        neg == t # << >> /\ Head(t) = "-"
        u == IF neg THEN Tail(t) ELSE t
        parts == SplitOn(u, ".")
        whole == parts[1]
        okFrac == Len(parts) = 1
                  \/ (Len(parts) = 2 /\ AllDigits(parts[2]) /\ NatValue(parts[2]) = 0)
    IN IF AllDigits(whole) /\ okFrac
       THEN [ok |-> TRUE, value |-> IF neg THEN 0 - NatValue(whole) ELSE NatValue(whole)]
       ELSE [ok |-> FALSE, value |-> 0]

\* json.loads of the text of an array of numbers
JsonLoads(s) ==
    IF Len(s) < 2 \/ s[1] # "[" \/ s[Len(s)] # "]" THEN [ok |-> FALSE, value |-> << >>]
    ELSE LET body == SubSeq(s, 2, Len(s) - 1)
             toks == SplitOn(body, ",")
             nums == [i \in 1..Len(toks) |-> ParseNumber(toks[i])]
         IN IF Strip(body) = << >> THEN [ok |-> TRUE, value |-> << >>]
            ELSE IF \A i \in 1..Len(nums) : nums[i].ok
                 THEN [ok |-> TRUE, value |-> [i \in 1..Len(nums) |-> nums[i].value]]
                 ELSE [ok |-> FALSE, value |-> << >>]

\* vectors with no, one and several components, of one and several digits
SampleVectors == { << >>, << 0 >>, << -10, 205 >>, << 7, -3, 12 >> }

\* the rows of the table as the connection sees it
Table == db.rows \o tx

\* C13: every record enters the table with an embedding text that reads back
\* as a list of numbers of the length of, and equal to, the vector
\* model.encode returned for the text of the record at that step, and no step
\* changes a record that is in the table: a step either leaves the rows,
\* drops uncommitted ones, or appends one such record.
C13_EmbeddingRoundTrip ==
    [][/\ \/ IsPrefix(Table', Table)
          \/ /\ Table' = Append(Table, inserted'[Len(inserted')])
             /\ LET r == Table'[Len(Table')]
                    call == encodeCalls[Len(encodeCalls)]
                    back == JsonLoads(r.embedding)
                IN /\ back.ok
                   /\ call.text = r.text
                   /\ Len(back.value) = Len(call.vector)
                   /\ back.value = call.vector
                   /\ back.value = Encode(r.text)
       /\ pc = "idle" =>
             \A v \in SampleVectors :
                JsonLoads(JsonDumps(ToList(v))) = [ok |-> TRUE, value |-> v]]_vars

\* C13 witness: the store holds the records of two different texts, one of
\* them with a negative component in its vector
C13_Witness ==
    /\ Len(db.rows) >= 2
    /\ \E i, j \in 1..Len(db.rows) :
          /\ db.rows[i].text # db.rows[j].text
          /\ JsonLoads(db.rows[i].embedding).ok
          /\ JsonLoads(db.rows[i].embedding).value[2] < 0
          /\ JsonLoads(db.rows[j].embedding).value[2] > 0

\* process_pdf has been entered and has opened the document
ExtractionBegun ==
    pc \in {"loop", "encode", "insert", "commit", "announce", "final_commit", "close"}

\* C14, as stated: the store is opened before the model is loaded, and both
\* before extraction begins.
C14_StoreBeforeModel ==
    /\ modelLoaded => conn # "none"
    /\ ExtractionBegun => (modelLoaded /\ conn = "open")

\* C14, amended: the model is loaded before the store is opened (init_db), and
\* both before extraction begins.
C14_ModelBeforeStore ==
    /\ conn # "none" => modelLoaded
    /\ pc \in {"init_db", "open_doc"} => modelLoaded
    /\ pc = "init_db" => (conn = "none" /\ db = pre)
    /\ ExtractionBegun => (modelLoaded /\ conn = "open")

\* C14 witness: a page is being handled, with the model loaded and the store
\* open
C14_Witness ==
    /\ pc = "encode"
    /\ pageIdx > 0
    /\ modelLoaded
    /\ conn = "open"

\* the state of the store writer of section 4.3: Appending while the open
\* transaction holds rows, Committed once a commit of the pass has emptied it
WriterState ==
    IF conn = "none" THEN "Uninitialized"
    ELSE IF conn = "closed" THEN "Closed"
    ELSE IF conn = "abandoned" THEN "Abandoned"
    ELSE IF tx # << >> THEN "Appending"
    ELSE IF commitsInLoop + finalCommits > 0 THEN "Committed"
    ELSE "Open"

\* the changes of state of the store writer within a run; a process that dies
\* leaves the connection abandoned
WriterTransitions ==
    { << "Uninitialized", "Open" >>,
      << "Open", "Appending" >>, << "Open", "Committed" >>, << "Open", "Closed" >>,
      << "Appending", "Committed" >>, << "Committed", "Appending" >>,
      << "Committed", "Closed" >>,
      << "Open", "Abandoned" >>, << "Appending", "Abandoned" >>,
      << "Committed", "Abandoned" >> }

\* C15: within a run the store writer changes state only along
\* Uninitialized, Open, then Appending and Committed in alternation, then
\* Closed; the connection is closed only with no uncommitted record, from Open
\* or Committed; once it is closed nothing is inserted or committed; a run
\* that ends normally ends in Closed.
C15_WriterStateMachine ==
    [][LET a == WriterState
           b == WriterState'
       IN IF pc' = "args"
          THEN b = "Uninitialized"
          ELSE /\ a # b => << a, b >> \in WriterTransitions
               /\ (b = "Closed" /\ a # "Closed") =>
                     (tx = << >> /\ Uncommitted = 0 /\ a \in {"Open", "Committed"})
               /\ a = "Closed" =>
                     /\ b = "Closed"
                     /\ UNCHANGED << db, tx, inserted, commitsInLoop, finalCommits >>
               /\ (pc' = "exited" /\ exitCode' = 0) => b = "Closed"]_vars

\* C15 witness: the connection has been closed after a pass that appended,
\* committed in the loop, appended again and committed at the end
C15_Witness ==
    /\ pc = "exited"
    /\ WriterState = "Closed"
    /\ commitsInLoop >= 1
    /\ Len(inserted) >= 3
    /\ Len(inserted) % commit_interval # 0
    /\ commit_interval = 2

\* C16: whenever a run has ended after opening the store connection, the
\* connection has been closed, also when the run ended with a fatal error.
C16_CloseOnAllPaths ==
    (pc \in {"exited", "aborted"} /\ conn # "none") => conn = "closed"

\* the step that prints 'Committed records up to page p' (line 74)
AnnounceStep == pc = "announce" /\ pc' = "loop"

\* C17: when the notice 'Committed records up to page p' is printed, the
\* commit has happened: no record is uncommitted, and the record of every
\* non-blank page up to p is durable.
C17_CommitBeforeNotice ==
    [][AnnounceStep =>
          /\ output' = Append(output, << "Committed records up to page", pageIdx >>)
          /\ tx = << >>
          /\ Uncommitted = 0
          /\ db.rows = pre.rows \o inserted
          /\ \A i \in 1..pageIdx :
                Strip(doc[i]) # << >> =>
                   \E j \in 1..Len(NewRows) :
                      NewRows[j].page = i /\ NewRows[j].text = Strip(doc[i])
          /\ UNCHANGED << db, tx >>]_vars

\* C17 witness: the notice has just been printed for a page that follows a
\* blank page, with two records committed
C17_Witness ==
    /\ pc = "loop"
    /\ output # << >>
    /\ output[Len(output)] = << "Committed records up to page", pageIdx >>
    /\ Len(NewRows) >= 2
    /\ \E i \in 1..pageIdx : Strip(doc[i]) = << >>

\* the pages of the document after which the loop commits: those with text
\* whose index in the document is a multiple of commit_interval
CommitPages ==
    {p \in 1..Len(doc) : Strip(doc[p]) # << >> /\ p % commit_interval = 0}

IsDurable(r) == \E i \in 1..Len(NewRows) : NewRows[i] = r

\* C19: the durable records of the current pass are a prefix of the records
\* inserted so far, which are in page order: no record is durable while the
\* record of an earlier page of the pass is not.
C19_DurablePrefix ==
    /\ IsPrefix(pre.rows, db.rows)
    /\ IsPrefix(NewRows, inserted)
    /\ \A i, j \in 1..Len(inserted) : i < j => inserted[i].page < inserted[j].page
    /\ \A i, j \in 1..Len(inserted) :
          (i < j /\ IsDurable(inserted[j])) => IsDurable(inserted[i])

\* C19 witness: in the middle of a second pass two records are durable and a
\* later one is not yet
C19_Witness ==
    /\ pc \in {"loop", "encode", "insert", "commit"}
    /\ pre.rows # << >>
    /\ Len(NewRows) >= 2
    /\ Len(inserted) > Len(NewRows)

====
